---- MODULE Spec2Model ----
(***************************************************************************)
(* Model of the sign-out route handler server/app/auth/signout/route.ts.  *)
(*                                                                         *)
(* GET is an async function.  It runs synchronously up to its first await  *)
(* (cookies(), createServerClient(...), the call of getSession), resumes   *)
(* when getSession settles (the session test, the call of signOut or the   *)
(* redirect), and resumes once more when signOut settles (the redirect).   *)
(* Each of these segments is one action.  While GET is suspended the SDK   *)
(* may invoke the three cookie callbacks it was handed.                    *)
(***************************************************************************)
EXTENDS Integers, Sequences, FiniteSets, TLC

\* ---------------------------------------------------------------- bounds
NumReq == 2          \* concurrent requests served by the host
MaxCallbacks == 1    \* cookie callbacks the SDK makes in one run

Req == 1..NumReq

Undefined == "undefined"
Null == "null"

\* Cookie names, values and provider-supplied option objects the SDK uses.
Names == {"sb-auth-token", "theme"}
Values == {"tokC"}
Options == {[path |-> "/"], [path |-> "/", maxAge |-> "0"]}

\* Query strings a request may carry (GET takes no parameter and reads none).
NoQuery == ""
EvilQuery == "?next=/evil"

\* process.env entries: a string, or undefined when unset.
EnvValues == {"set", Undefined}

\* Cookie jars a request may arrive with: no cookie at all, a stale
\* (malformed or expired) auth cookie, a live auth cookie beside another one.
NoCookieJar == <<>>
StaleJar ==
  [n \in {"sb-auth-token"} |-> [name |-> n, value |-> "tokB", path |-> "/"]]
LiveJar == [n \in Names |-> [name |-> n, value |-> "tokA", path |-> "/"]]

\* The requests the host may hand to GET.
Requests ==
  << [query |-> NoQuery, jar |-> NoCookieJar],
     [query |-> EvilQuery, jar |-> StaleJar],
     [query |-> NoQuery, jar |-> LiveJar] >>

VARIABLES
  env,          \* process.env: [url, key]
  query,        \* query[r]: the query string of request r
  jars,         \* jars[r]: the host framework's cookie jar of request r
  jar0,         \* jar0[r]: the jar request r arrived with
  pc,           \* pc[i]: where invocation i of GET is
  cookieStore,  \* cookieStore[i]: the local const cookieStore of invocation i
  session,      \* session[i]: the local const session of invocation i
  calls,        \* calls[i]: the calls invocation i made and how they settled
  response,     \* response[i]: the redirect target, or undefined
  fault,        \* fault[i]: the uncaught error that ended invocation i
  writes,       \* writes[i]: set/remove callbacks made for invocation i
  ncb,          \* cookie callbacks made so far
  lastCb        \* the cookie callback the latest step made, or NoCall

vars == <<env, query, jars, jar0, pc, cookieStore, session, calls, response,
          fault, writes, ncb, lastCb>>

NoCall == [inv |-> 0, op |-> "none", name |-> Undefined, value |-> Undefined,
           options |-> [path |-> "/"], ret |-> Undefined]

\* ------------------------------------------------- object and jar helpers

\* Object spread { ...a, ...b }: a later key overrides an earlier one.
Spread(a, b) ==
  [k \in DOMAIN a \cup DOMAIN b |-> IF k \in DOMAIN b THEN b[k] ELSE a[k]]

\* cookieStore.get(name)?.value
StoreGetValue(jar, name) ==
  IF name \in DOMAIN jar THEN jar[name].value ELSE Undefined

\* cookieStore.set(cookie)
StoreSet(jar, cookie) ==
  [n \in DOMAIN jar \cup {cookie.name} |->
     IF n = cookie.name THEN cookie ELSE jar[n]]

\* cookieStore.delete(cookie)
StoreDelete(jar, cookie) ==
  [n \in DOMAIN jar \ {cookie.name} |-> jar[n]]

\* ------------------------------------------------------ cookie callbacks

\* get(name) { return cookieStore.get(name)?.value; }
get(jar, name) == StoreGetValue(jar, name)

\* A set that drops the provider's options.
setNoOptions(jar, name, value, options) ==
  StoreSet(jar, [name |-> name, value |-> value])

\* set(name, value, options) { cookieStore.set({ name, value, ...options }); }
set(jar, name, value, options) ==
  StoreSet(jar, Spread([name |-> name, value |-> value], options))

\* remove(name, options) { cookieStore.delete({ name, ...options }); }
remove(jar, name, options) ==
  StoreDelete(jar, Spread([name |-> name], options))

\* ------------------------------------------------------------ the handler

\* A cookie store shared by every request.
cookiesShared(i) == 1

\* const cookieStore = cookies(): the jar of the request being served.
cookies(i) == i

\* A client that checks the URL only.
createServerClientUrlOnly(url, key) ==
  IF url = Undefined THEN "throw" ELSE "client"

\* createServerClient(url, key, ...) throws when either is missing.
createServerClient(url, key) ==
  IF url = Undefined \/ key = Undefined THEN "throw" ELSE "client"

\* if (!session)
Falsy(s) == s = Null

\* if (session !== undefined)
Defined(s) == s # Undefined

\* if (session)
Truthy(s) == s # Null

\* A redirect that follows the request's next parameter.
redirectToNext(q) == IF q = NoQuery THEN "/" ELSE "/evil"

\* redirect("/"): the target does not read the request.
redirectTarget(q) == "/"

\* What the SDK's promises settle to.
GetSessionResults == {"session", "null", "error"}
SignOutResults == {"ok", "error"}

\* data.session of a resolved getSession
DataSession(r) == IF r = "session" THEN "sess" ELSE Null

Awaiting(i) == pc[i] \in {"awaitGetSession", "awaitSignOut"}
Terminal(i) == pc[i] \in {"redirected", "failed"}

Init ==
  /\ env \in [url : EnvValues, key : EnvValues]
  \* Invocations are interchangeable: the requests are numbered in the
  \* order of their kinds.
  /\ \E k \in [Req -> DOMAIN Requests] :
       /\ \A i, j \in Req : i < j => k[i] <= k[j]
       /\ query = [i \in Req |-> Requests[k[i]].query]
       /\ jar0 = [i \in Req |-> Requests[k[i]].jar]
  /\ jars = jar0
  /\ pc = [i \in Req |-> "idle"]
  /\ cookieStore = [i \in Req |-> 0]
  /\ session = [i \in Req |-> Undefined]
  /\ calls = [i \in Req |-> <<>>]
  /\ response = [i \in Req |-> Undefined]
  /\ fault = [i \in Req |-> "none"]
  /\ writes = [i \in Req |-> 0]
  /\ ncb = 0
  /\ lastCb = NoCall

\* Lines 6-28: cookies(), createServerClient(...), the call of getSession.
GET(i) ==
  /\ pc[i] = "idle"
  /\ cookieStore' = [cookieStore EXCEPT ![i] = cookies(i)]
  /\ IF createServerClient(env.url, env.key) = "throw"
     THEN /\ pc' = [pc EXCEPT ![i] = "failed"]
          /\ fault' = [fault EXCEPT ![i] = "config"]
          /\ calls' = [calls EXCEPT ![i] = <<"createServerClient">>]
     ELSE /\ pc' = [pc EXCEPT ![i] = "awaitGetSession"]
          /\ fault' = fault
          /\ calls' = [calls EXCEPT ![i] = <<"createServerClient", "getSession">>]
  /\ UNCHANGED <<env, query, jars, jar0, session, response, writes, ncb>>
  /\ lastCb' = NoCall

\* The SDK invokes get(name) while GET is suspended.
SdkGet(i, name) ==
  /\ Awaiting(i)
  /\ ncb < MaxCallbacks
  /\ ncb' = ncb + 1
  /\ lastCb' = [inv |-> i, op |-> "get", name |-> name, value |-> Undefined,
                options |-> [path |-> "/"],
                ret |-> get(jars[cookieStore[i]], name)]
  /\ UNCHANGED <<env, query, jars, jar0, pc, cookieStore, session, calls,
                 response, fault, writes>>

\* The SDK invokes set(name, value, options) while GET is suspended.
SdkSet(i, name, value, options) ==
  /\ Awaiting(i)
  /\ ncb < MaxCallbacks
  /\ ncb' = ncb + 1
  /\ jars' = [jars EXCEPT ![cookieStore[i]] = set(@, name, value, options)]
  /\ writes' = [writes EXCEPT ![i] = @ + 1]
  /\ lastCb' = [inv |-> i, op |-> "set", name |-> name, value |-> value,
                options |-> options, ret |-> Undefined]
  /\ UNCHANGED <<env, query, jar0, pc, cookieStore, session, calls, response,
                 fault>>

\* The SDK invokes remove(name, options) while GET is suspended.
SdkRemove(i, name, options) ==
  /\ Awaiting(i)
  /\ ncb < MaxCallbacks
  /\ ncb' = ncb + 1
  /\ jars' = [jars EXCEPT ![cookieStore[i]] = remove(@, name, options)]
  /\ writes' = [writes EXCEPT ![i] = @ + 1]
  /\ lastCb' = [inv |-> i, op |-> "remove", name |-> name, value |-> Undefined,
                options |-> options, ret |-> Undefined]
  /\ UNCHANGED <<env, query, jar0, pc, cookieStore, session, calls, response,
                 fault>>

\* A handler that does not await signOut before it redirects.
GetSessionResolvesNoAwait(i, r) ==
  /\ pc[i] = "awaitGetSession"
  /\ session' = [session EXCEPT ![i] = DataSession(r)]
  /\ pc' = [pc EXCEPT ![i] = "redirected"]
  /\ calls' = [calls EXCEPT ![i] =
        @ \o <<"getSession:" \o r>>
          \o (IF Truthy(DataSession(r)) THEN <<"signOut">> ELSE <<>>)
          \o <<"redirect">>]
  /\ response' = [response EXCEPT ![i] = redirectTarget(query[i])]
  /\ UNCHANGED <<env, query, jars, jar0, cookieStore, fault, writes, ncb>>
  /\ lastCb' = NoCall

\* Lines 26-34 after getSession resolved with r: the session test, then the
\* call of signOut, or the redirect.
GetSessionResolves(i, r) ==
  /\ pc[i] = "awaitGetSession"
  /\ session' = [session EXCEPT ![i] = DataSession(r)]
  /\ IF Truthy(DataSession(r))
     THEN /\ pc' = [pc EXCEPT ![i] = "awaitSignOut"]
          /\ calls' = [calls EXCEPT ![i] = @ \o <<"getSession:" \o r, "signOut">>]
          /\ response' = response
     ELSE /\ pc' = [pc EXCEPT ![i] = "redirected"]
          /\ calls' = [calls EXCEPT ![i] = @ \o <<"getSession:" \o r, "redirect">>]
          /\ response' = [response EXCEPT ![i] = redirectTarget(query[i])]
  /\ UNCHANGED <<env, query, jars, jar0, cookieStore, fault, writes, ncb>>
  /\ lastCb' = NoCall

\* A handler that catches the first failure of getSession and calls it again.
GetSessionRetries(i) ==
  /\ pc[i] = "awaitGetSession"
  /\ IF Len(calls[i]) < 3
     THEN /\ calls' = [calls EXCEPT ![i] = @ \o <<"getSession:throw", "getSession">>]
          /\ UNCHANGED <<pc, fault>>
     ELSE /\ pc' = [pc EXCEPT ![i] = "failed"]
          /\ fault' = [fault EXCEPT ![i] = "getSession"]
          /\ calls' = [calls EXCEPT ![i] = Append(@, "getSession:throw")]
  /\ UNCHANGED <<env, query, jars, jar0, cookieStore, session, response, writes,
                 ncb>>
  /\ lastCb' = NoCall

\* The await of getSession throws: nothing catches it.
GetSessionRejects(i) ==
  /\ pc[i] = "awaitGetSession"
  /\ pc' = [pc EXCEPT ![i] = "failed"]
  /\ fault' = [fault EXCEPT ![i] = "getSession"]
  /\ calls' = [calls EXCEPT ![i] = Append(@, "getSession:throw")]
  /\ UNCHANGED <<env, query, jars, jar0, cookieStore, session, response, writes, ncb>>
  /\ lastCb' = NoCall

\* A handler that deletes the auth cookie itself once signOut resolved.
SignOutResolvesClearing(i, r) ==
  /\ pc[i] = "awaitSignOut"
  /\ pc' = [pc EXCEPT ![i] = "redirected"]
  /\ calls' = [calls EXCEPT ![i] = @ \o <<"signOut:" \o r, "redirect">>]
  /\ response' = [response EXCEPT ![i] = redirectTarget(query[i])]
  /\ jars' = [jars EXCEPT ![cookieStore[i]] =
                StoreDelete(@, [name |-> "sb-auth-token"])]
  /\ UNCHANGED <<env, query, jar0, cookieStore, session, fault, writes, ncb>>
  /\ lastCb' = NoCall

\* Lines 31-34 after signOut resolved with r (the value is discarded).
SignOutResolves(i, r) ==
  /\ pc[i] = "awaitSignOut"
  /\ pc' = [pc EXCEPT ![i] = "redirected"]
  /\ calls' = [calls EXCEPT ![i] = @ \o <<"signOut:" \o r, "redirect">>]
  /\ response' = [response EXCEPT ![i] = redirectTarget(query[i])]
  /\ UNCHANGED <<env, query, jars, jar0, cookieStore, session, fault, writes, ncb>>
  /\ lastCb' = NoCall

\* The await of signOut throws: nothing catches it.
SignOutRejects(i) ==
  /\ pc[i] = "awaitSignOut"
  /\ pc' = [pc EXCEPT ![i] = "failed"]
  /\ fault' = [fault EXCEPT ![i] = "signOut"]
  /\ calls' = [calls EXCEPT ![i] = Append(@, "signOut:throw")]
  /\ UNCHANGED <<env, query, jars, jar0, cookieStore, session, response, writes, ncb>>
  /\ lastCb' = NoCall

Next ==
  \E i \in Req :
    \/ GET(i)
    \/ \E n \in Names : SdkGet(i, n)
    \/ \E n \in Names, v \in Values, o \in Options : SdkSet(i, n, v, o)
    \/ \E n \in Names, o \in Options : SdkRemove(i, n, o)
    \/ \E r \in GetSessionResults : GetSessionResolves(i, r)
    \/ GetSessionRejects(i)
    \/ \E r \in SignOutResults : SignOutResolves(i, r)
    \/ SignOutRejects(i)

Spec == Init /\ [][Next]_vars

\* The awaited SDK calls settle: they resolve or they throw.
GetSessionSettles(i) ==
  (\E r \in GetSessionResults : GetSessionResolves(i, r)) \/ GetSessionRejects(i)
SignOutSettles(i) ==
  (\E r \in SignOutResults : SignOutResolves(i, r)) \/ SignOutRejects(i)

\* Every awaited SDK call eventually settles.
FairSpec ==
  Spec /\ \A i \in Req : WF_vars(GetSessionSettles(i)) /\ WF_vars(SignOutSettles(i))

\* ---------------------------------------------------- reading the call log

Has(log, e) == \E k \in DOMAIN log : log[k] = e
Count(log, e) == Cardinality({k \in DOMAIN log : log[k] = e})
\* The first place of e in log, or 0.
Pos(log, e) ==
  IF Has(log, e) THEN CHOOSE k \in DOMAIN log :
                        log[k] = e /\ \A m \in DOMAIN log : log[m] = e => k <= m
  ELSE 0
Before(log, a, b) == Has(log, a) /\ Pos(log, a) < Pos(log, b)

SessionPresent(i) == Has(calls[i], "getSession:session")
NoSession(i) == Has(calls[i], "getSession:null") \/ Has(calls[i], "getSession:error")
GetSessionResolved(i) == SessionPresent(i) \/ NoSession(i)
SignOutResolved(i) == Has(calls[i], "signOut:ok") \/ Has(calls[i], "signOut:error")
Redirected(i) == pc[i] = "redirected" /\ response[i] = "/" /\ fault[i] = "none"
Failed(i) == pc[i] = "failed" /\ response[i] = Undefined /\ fault[i] # "none"
\* The calls GET made, without how they settled.
CallsMade(i) ==
  SelectSeq(calls[i], LAMBDA e :
    e \in {"createServerClient", "getSession", "signOut", "redirect"})

\* ------------------------------------------------------------------ claims

\* C1 as stated: whenever getSession resolved with a session, signOut is
\* invoked exactly once and the finished invocation has redirected to "/".
C1_AsStated ==
  \A i \in Req :
    SessionPresent(i) =>
      /\ Count(calls[i], "signOut") = 1
      /\ Terminal(i) => Redirected(i)

\* C1 amended: whenever getSession resolved with a session, signOut is invoked
\* exactly once; the finished invocation has redirected to "/" when signOut
\* resolved, and has failed without a redirect when signOut threw.
C1_SignOutOnceThenRedirect ==
  \A i \in Req :
    SessionPresent(i) =>
      /\ Count(calls[i], "signOut") = 1
      /\ Terminal(i) =>
           IF Has(calls[i], "signOut:throw")
           THEN Failed(i) /\ fault[i] = "signOut"
           ELSE SignOutResolved(i) /\ Redirected(i)

C1_Witness ==
  \E i \in Req :
    /\ SessionPresent(i) /\ Redirected(i)
    /\ jar0[i] = LiveJar /\ Count(calls[i], "signOut") = 1

\* C2: whenever getSession resolved to no session, signOut is never invoked
\* and the invocation has redirected to "/"; two such invocations made the
\* same calls and gave the same response whatever cookies they arrived with.
C2_NoSessionNoSignOut ==
  \A i \in Req :
    NoSession(i) =>
      /\ session[i] = Null
      /\ Count(calls[i], "signOut") = 0
      /\ Redirected(i)
      /\ CallsMade(i) = <<"createServerClient", "getSession", "redirect">>
      /\ \A j \in Req :
           NoSession(j) => CallsMade(j) = CallsMade(i) /\ response[j] = response[i]

C2_Witness ==
  \E i, j \in Req :
    /\ jar0[i] = NoCookieJar /\ jar0[j] = StaleJar
    /\ NoSession(i) /\ NoSession(j)
    /\ Redirected(i) /\ Redirected(j)

\* C3: a redirect's target is exactly "/", whatever the query string, the
\* cookie jar and the session were.
C3_RedirectTargetIsRoot ==
  \A i \in Req :
    /\ response[i] # Undefined => response[i] = "/"
    /\ Has(calls[i], "redirect") => response[i] = "/"

C3_Witness ==
  \E i, j \in Req :
    /\ query[i] = EvilQuery /\ response[i] = "/" /\ NoSession(i)
    /\ query[j] = NoQuery /\ response[j] = "/" /\ SessionPresent(j)
    /\ jars[j] # jars[i]

\* C4: when the service URL or the API key is missing, an invocation that
\* started has failed: no redirect, and neither getSession nor signOut called.
C4_ConstructionFailureAborts ==
  \A i \in Req :
    (env.url = Undefined \/ env.key = Undefined) /\ pc[i] # "idle" =>
      /\ Failed(i) /\ fault[i] = "config"
      /\ ~Has(calls[i], "getSession") /\ ~Has(calls[i], "signOut")
      /\ ~Has(calls[i], "redirect")

C4_Witness ==
  \E i \in Req :
    env.url # Undefined /\ env.key = Undefined /\ pc[i] = "failed"

\* C5 as stated: when getSession failed (it threw) or signOut failed (it
\* threw, or it resolved with an error), the invocation does not redirect:
\* once finished it has failed, and the failed call was made once.  (A
\* getSession that resolves with an error and no session is C2's case.)
C5_FailurePropagates ==
  \A i \in Req :
    ( \/ Has(calls[i], "getSession:throw")
      \/ Has(calls[i], "signOut:throw") \/ Has(calls[i], "signOut:error") ) =>
      /\ ~Has(calls[i], "redirect") /\ response[i] = Undefined
      /\ Terminal(i) => Failed(i)
      /\ Count(calls[i], "getSession") <= 1 /\ Count(calls[i], "signOut") <= 1

\* C6: invocations are isolated.  In every state, whether an invocation
\* called signOut and how it ended is fixed by what its own SDK calls settled
\* to; in every step, only one invocation moves, a jar is changed only by a
\* callback of the invocation serving that request, and get reads that jar.
OwnOutcome(i) ==
  /\ Has(calls[i], "signOut") <=> SessionPresent(i)
  /\ pc[i] = "redirected" <=> (NoSession(i) \/ SignOutResolved(i))
  /\ pc[i] = "failed" <=>
       \/ Has(calls[i], "getSession:throw") \/ Has(calls[i], "signOut:throw")
       \/ (calls[i] = <<"createServerClient">>)
Local(i) == <<pc[i], cookieStore[i], session[i], calls[i], response[i], fault[i],
              writes[i]>>
IsolatedStep ==
  /\ \A i, j \in Req : Local(i)' # Local(i) /\ Local(j)' # Local(j) => i = j
  /\ \A r \in Req :
       jars'[r] # jars[r] =>
         /\ lastCb'.inv = r /\ lastCb'.op \in {"set", "remove"}
         /\ writes'[r] = writes[r] + 1
  /\ (ncb' # ncb /\ lastCb'.op = "get") =>
       lastCb'.ret = StoreGetValue(jars[lastCb'.inv], lastCb'.name)
C6_Isolation ==
  [](\A i \in Req : OwnOutcome(i)) /\ [][IsolatedStep]_vars

C6_Witness ==
  \E i, j \in Req :
    /\ i # j /\ jar0[i] = jar0[j]
    /\ Awaiting(i) /\ writes[i] = 0 /\ jars[i] = jar0[i]
    /\ pc[j] = "redirected" /\ writes[j] = 1 /\ jars[j] # jar0[j]

\* C7: the callbacks pass through to the request's jar.  In every step that
\* makes a callback: get returns the stored value (undefined when absent)
\* and changes no jar; set leaves the jar holding the value and every
\* supplied option under the name; remove leaves the name absent; and every
\* other cookie, and every other jar, is as before.
OthersUnchanged(before, after, name) ==
  \A n \in (DOMAIN before \cup DOMAIN after) \ {name} :
    n \in DOMAIN before /\ n \in DOMAIN after /\ after[n] = before[n]
PassThroughStep ==
  ncb' # ncb =>
    LET c == lastCb'
        before == jars[c.inv]
        after == jars'[c.inv]
    IN /\ \A r \in Req \ {c.inv} : jars'[r] = jars[r]
       /\ c.op \in {"get", "set", "remove"}
       /\ c.op = "get" =>
            /\ jars' = jars
            /\ c.ret = (IF c.name \in DOMAIN before
                        THEN before[c.name].value ELSE Undefined)
       /\ c.op = "set" =>
            /\ c.name \in DOMAIN after
            /\ DOMAIN after[c.name] = {"name", "value"} \cup DOMAIN c.options
            /\ after[c.name].name = c.name
            /\ after[c.name].value = c.value
            /\ \A k \in DOMAIN c.options : after[c.name][k] = c.options[k]
            /\ OthersUnchanged(before, after, c.name)
       /\ c.op = "remove" =>
            /\ c.name \notin DOMAIN after
            /\ OthersUnchanged(before, after, c.name)
C7_CallbacksPassThrough == [][PassThroughStep]_vars

C7_Witness ==
  \E i \in Req :
    /\ lastCb.inv = i /\ lastCb.op = "set" /\ lastCb.name = "sb-auth-token"
    /\ lastCb.options = [path |-> "/", maxAge |-> "0"]
    /\ jar0[i] = LiveJar
    /\ jars[i]["sb-auth-token"].value = "tokC"
    /\ jars[i]["sb-auth-token"].maxAge = "0"
    /\ jars[i]["theme"] = jar0[i]["theme"]

\* C8: within an invocation the client is constructed before getSession is
\* called, signOut is called only after getSession resolved, the redirect
\* comes only after getSession resolved and, with a session, after signOut
\* resolved, and nothing follows the redirect.
C8_StepOrder ==
  \A i \in Req :
    LET log == calls[i] IN
    /\ log # <<>> => log[1] = "createServerClient"
    /\ Has(log, "getSession") => Before(log, "createServerClient", "getSession")
    /\ Has(log, "signOut") =>
         /\ Before(log, "getSession", "getSession:session")
         /\ Before(log, "getSession:session", "signOut")
    /\ Has(log, "redirect") =>
         /\ \/ Before(log, "getSession:session", "redirect")
            \/ Before(log, "getSession:null", "redirect")
            \/ Before(log, "getSession:error", "redirect")
         /\ SessionPresent(i) =>
              /\ Before(log, "signOut", "redirect")
              /\ \/ Before(log, "signOut:ok", "redirect")
                 \/ Before(log, "signOut:error", "redirect")
         /\ Pos(log, "redirect") = Len(log)
         /\ Count(log, "redirect") = 1

C8_Witness ==
  \E i \in Req :
    calls[i] = <<"createServerClient", "getSession", "getSession:session",
                 "signOut", "signOut:ok", "redirect">>

\* C9: GET writes no cookie itself.  A step changes a jar only by making a
\* set or remove callback, and an invocation for which the SDK made neither
\* has its jar as the request arrived with it.
JarWrittenByCallbackOnly ==
  \A r \in Req :
    jars'[r] # jars[r] => ncb' = ncb + 1 /\ lastCb'.op \in {"set", "remove"}
C9_GetWritesNoCookie ==
  /\ [](\A i \in Req : writes[i] = 0 => jars[i] = jar0[i])
  /\ [][JarWrittenByCallbackOnly]_vars

C9_Witness ==
  \E i \in Req :
    /\ Redirected(i) /\ SignOutResolved(i)
    /\ writes[i] = 0 /\ jar0[i] = LiveJar /\ jars[i] = LiveJar

\* C10: when every awaited SDK call settles, there comes a time from which
\* every invocation that started is at its end; an invocation never has both
\* a redirect and a failure; its end, once reached, stays; and it calls
\* getSession and signOut at most once each.
OneOutcome(i) ==
  /\ ~(response[i] # Undefined /\ fault[i] # "none")
  /\ Terminal(i) => (Redirected(i) \/ Failed(i))
  /\ Count(calls[i], "getSession") <= 1
  /\ Count(calls[i], "signOut") <= 1
EndStays ==
  \A i \in Req : Terminal(i) => Local(i)' = Local(i)
C10_Terminates ==
  /\ <>[](\A i \in Req : pc[i] = "idle" \/ Terminal(i))
  /\ [](\A i \in Req : OneOutcome(i))
  /\ [][EndStays]_vars

C10_Witness ==
  \E i, j \in Req :
    /\ Failed(i) /\ fault[i] = "getSession"
    /\ Redirected(j) /\ SignOutResolved(j)

====
